---- MODULE Spec2Model ----
(***************************************************************************)
(* prepare_coco_real.py: main() as a state machine.                        *)
(*                                                                         *)
(* Strings are sequences of character codes, compared as Python compares   *)
(* str values (code point by code point).  A Python dict is a sequence of  *)
(* <<key, value>> pairs in insertion order.  A JSON object is a function   *)
(* whose DOMAIN is the set of keys that are present.                       *)
(***************************************************************************)
EXTENDS Integers, Sequences, FiniteSets, TLC

VARIABLES
    args,                  \* parsed command line (lines 23-41)
    coco_data,             \* the loaded annotation file (line 48)
    src_dir,               \* args.coco_img_dir: file name -> image file
    out_dir,               \* args.output_dir: file name -> file
    id_to_filename,        \* dict (lines 51-53), as a function
    image_instance_count,  \* Counter (lines 56-62), in insertion order
    printed_dist,          \* lines printed by 66-68, as <<count, images>> pairs
    selected_images,       \* dict (lines 72-76), in insertion order
    printed_filtered,      \* lines printed by 80-82
    copied,                \* line 86, 112
    warnings,              \* paths printed by line 93
    errors,                \* paths printed by line 114
    written,               \* <<img_id, dst_filename>> of every completed img.save
    sample_files,          \* lines printed by 120-121
    pc, i                  \* position in main(), loop index (1-based)

vars == <<args, coco_data, src_dir, out_dir, id_to_filename, image_instance_count,
          printed_dist, selected_images, printed_filtered, copied, warnings,
          errors, written, sample_files, pc, i>>

-----------------------------------------------------------------------------
(* Bounds of the model                                                     *)

MaxAnns == 3
MaxSide == 6
MaxPrior == 11

(* Program constants                                                       *)

SampleLimit == 10

-----------------------------------------------------------------------------
(* Strings                                                                 *)

JpgExt == <<46, 106, 112, 103>>       \* ".jpg"
PngExt == <<46, 112, 110, 103>>       \* ".png"
Dot == JpgExt[1]
Sep == Dot + 1                        \* "/"
Digit0 == Sep + 1                     \* "0"
Underscore == <<95>>                  \* "_"

\* str(n) of a non-negative integer, as an f-string formats it
RECURSIVE Str(_)
Str(n) == IF n < 10 THEN <<Digit0 + n>> ELSE Str(n \div 10) \o <<Digit0 + (n % 10)>>

\* s < t on Python strings
RECURSIVE LexLess(_, _)
LexLess(s, t) ==
    IF s = <<>> THEN t # <<>>
    ELSE IF t = <<>> THEN FALSE
    ELSE IF Head(s) # Head(t) THEN Head(s) < Head(t)
    ELSE LexLess(Tail(s), Tail(t))

\* p.rfind(c): the last 1-based index of c in p, 0 when there is none
RFind(p, c) ==
    LET hits == {k \in 1..Len(p) : p[k] = c}
    IN  IF hits = {} THEN 0 ELSE CHOOSE k \in hits : \A m \in hits : m <= k

\* os.path.splitext(p)[0]: the extension starts at the last dot of the last
\* path component, unless only dots precede it there
SplitExtBase(p) ==
    LET sepIndex == RFind(p, Sep)
        dotIndex == RFind(p, Dot)
    IN  IF dotIndex > sepIndex
           /\ \E k \in (sepIndex + 1)..(dotIndex - 1) : p[k] # Dot
        THEN SubSeq(p, 1, dotIndex - 1)
        ELSE p

\* mutant: the extension of the source file name is kept
DstFilename_keepext(count, src_filename) ==
    Str(count) \o Underscore \o src_filename \o JpgExt

\* mutant: the count prefix is left out
DstFilename_nocount(count, src_filename) ==
    SplitExtBase(src_filename) \o JpgExt

\* f"{count}_{base_name}.jpg"
DstFilename(count, src_filename) ==
    Str(count) \o Underscore \o SplitExtBase(src_filename) \o JpgExt

-----------------------------------------------------------------------------
(* Dicts                                                                   *)

Keys(d) == {d[k][1] : k \in 1..Len(d)}
Values(d) == {d[k][2] : k \in 1..Len(d)}
Lookup(d, key) == LET k == CHOOSE k \in 1..Len(d) : d[k][1] = key IN d[k][2]

\* ann.get(key, default)
Get(obj, key, default) == IF key \in DOMAIN obj THEN obj[key] ELSE default

\* counter[key] += 1
Incr(counter, key) ==
    IF key \in Keys(counter)
    THEN [k \in 1..Len(counter) |->
            IF counter[k][1] = key THEN <<key, counter[k][2] + 1>> ELSE counter[k]]
    ELSE Append(counter, <<key, 1>>)

\* sorted(S) of a set of integers: the k-th element has k - 1 smaller ones
SortedInts(S) ==
    [k \in 1..Cardinality(S) |->
        CHOOSE x \in S : Cardinality({y \in S : y < x}) = k - 1]

\* sorted(S) of a set of strings
SortedNames(S) ==
    [k \in 1..Cardinality(S) |->
        CHOOSE x \in S : Cardinality({y \in S : LexLess(y, x)}) = k - 1]

-----------------------------------------------------------------------------
(* The pure steps of main()                                                *)

\* mutant: an annotation of exactly min_area is skipped too
CountAnnotation_le(counter, ann, min_area) ==
    IF Get(ann, "iscrowd", 0) # 0 THEN counter
    ELSE IF Get(ann, "area", 0) <= min_area THEN counter
    ELSE Incr(counter, ann.image_id)

\* mutant: a skipped annotation still creates its image's entry, with count 0
CountAnnotation_touch(counter, ann, min_area) ==
    IF Get(ann, "iscrowd", 0) # 0 \/ Get(ann, "area", 0) < min_area
    THEN IF ann.image_id \in Keys(counter) THEN counter
         ELSE Append(counter, <<ann.image_id, 0>>)
    ELSE Incr(counter, ann.image_id)

\* lines 58-62: one annotation record's effect on the Counter
CountAnnotation(counter, ann, min_area) ==
    IF Get(ann, "iscrowd", 0) # 0 THEN counter
    ELSE IF Get(ann, "area", 0) < min_area THEN counter
    ELSE Incr(counter, ann.image_id)

\* Counter(d.values()): count value -> number of entries having it
CountValues(d) ==
    [c \in Values(d) |-> Cardinality({k \in 1..Len(d) : d[k][2] = c})]

\* mutant: the count values are listed in descending order
PrintDistribution_desc(dist) ==
    LET ks == SortedInts(DOMAIN dist)
    IN  [k \in 1..Len(ks) |-> <<ks[Len(ks) + 1 - k], dist[ks[Len(ks) + 1 - k]]>>]

\* lines 67-68, 81-82: one line per count value, in sorted order
PrintDistribution(dist) ==
    LET ks == SortedInts(DOMAIN dist)
    IN  [k \in 1..Len(ks) |-> <<ks[k], dist[ks[k]]>>]

\* mutant: the upper bound is exclusive
SelectRange_exclusive(d, min_count, max_count) ==
    SelectSeq(d, LAMBDA e : min_count <= e[2] /\ e[2] < max_count)

\* lines 72-76: the dict comprehension keeps insertion order
SelectRange(d, min_count, max_count) ==
    SelectSeq(d, LAMBDA e : min_count <= e[2] /\ e[2] <= max_count)

\* mutant: the square is taken from the top left corner
CropBox_corner(w, h) ==
    LET min_side == IF w < h THEN w ELSE h
    IN  <<0, 0, min_side, min_side>>

\* lines 105-109: the box handed to img.crop, (left, upper, right, lower)
CropBox(w, h) ==
    LET min_side == IF w < h THEN w ELSE h
        left == (w - min_side) \div 2
        top == (h - min_side) \div 2
    IN  <<left, top, left + min_side, top + min_side>>

\* lines 103-110: Image.open raises on an undecodable file, img.resize on a
\* size that is not positive; resize yields an image of the requested extent
Canonicalize(file, image_size) ==
    IF ~file.decodable THEN [ok |-> FALSE, box |-> <<0, 0, 0, 0>>, size |-> <<0, 0>>]
    ELSE LET box == CropBox(file.w, file.h)
         IN  IF image_size <= 0
             THEN [ok |-> FALSE, box |-> box, size |-> <<0, 0>>]
             ELSE [ok |-> TRUE, box |-> box, size |-> <<image_size, image_size>>]

\* line 111: img.save raises when the destination exists and cannot be written
CanSave(dir, dst_filename) ==
    dst_filename \in DOMAIN dir => dir[dst_filename].writable

\* line 111: the directory after a completed img.save
Save(dir, dst_filename, src_filename, img) ==
    [n \in DOMAIN dir \cup {dst_filename} |->
        IF n = dst_filename
        THEN [writable |-> TRUE, src |-> src_filename, box |-> img.box, size |-> img.size]
        ELSE dir[n]]

\* mutant: the except clause swallows the error without reporting it
HandleError_silent(errs, src_path) == [errors |-> errs, pc |-> "copy"]

\* mutant: the error is reported and raised again, which ends the run
HandleError_raise(errs, src_path) == [errors |-> Append(errs, src_path), pc |-> "aborted"]

\* lines 113-114: the except clause reports the path and the loop goes on
HandleError(errs, src_path) == [errors |-> Append(errs, src_path), pc |-> "copy"]

\* mutant: the listing is not cut to its first entries
SampleFiles_all(dir) == SortedNames(DOMAIN dir)

\* line 119: sorted(os.listdir(output_dir))[:10]
SampleFiles(dir) ==
    LET names == SortedNames(DOMAIN dir)
    IN  SubSeq(names, 1, IF Len(names) < SampleLimit THEN Len(names) ELSE SampleLimit)

-----------------------------------------------------------------------------
(* Inputs                                                                  *)

ImageIds == {1, 2}

NameA == <<97>> \o JpgExt             \* "a.jpg"
NameB == <<98>> \o JpgExt             \* "b.jpg"
NameAPng == <<97>> \o PngExt          \* "a.png"
NameHidden == JpgExt                  \* ".jpg": a name that is all extension
SrcNames == {NameA, NameB, NameAPng, NameHidden}

\* the parser's defaults, lines 33-40
DefaultArgs == [min_count |-> 1, max_count |-> 7, image_size |-> 256, min_area |-> 1024]

\* annotation records: iscrowd and area are optional.  Image 1 gets every
\* shape of record, image 2 a plain, a crowd and a bare one.
AnnRecords ==
    {[image_id |-> 1]}
    \cup {[image_id |-> 1, iscrowd |-> c] : c \in {0, 1}}
    \cup {[image_id |-> 1, area |-> a] : a \in {500, 1024}}
    \cup {[image_id |-> 1, iscrowd |-> c, area |-> a] : c \in {0, 1}, a \in {500, 1024}}
    \cup {[image_id |-> 2], [image_id |-> 2, area |-> 1024],
          [image_id |-> 2, iscrowd |-> 1, area |-> 1024]}

Ann(id) == [image_id |-> id, iscrowd |-> 0, area |-> 2000]
Img(id, name) == [id |-> id, file_name |-> name]

SeqsUpTo(S, n) == UNION {[1..k -> S] : k \in 0..n}

\* files of the source directory
Missing == [exists |-> FALSE, decodable |-> FALSE, w |-> 0, h |-> 0]
Corrupt == [exists |-> TRUE, decodable |-> FALSE, w |-> 0, h |-> 0]
Picture(w, h) == [exists |-> TRUE, decodable |-> TRUE, w |-> w, h |-> h]
AllPictures == [n \in SrcNames |-> Picture(3, 2)]

\* files already in the output directory when the run starts
Prior(writable) ==
    [writable |-> writable, src |-> <<>>, box |-> <<0, 0, 0, 0>>, size |-> <<0, 0>>]
EmptyDir == [n \in {} |-> Prior(TRUE)]
StaleName(k) == Str(k) \o Underscore \o <<122>> \o JpgExt   \* "<k>_z.jpg"

\* the state at line 50: arguments parsed, output directory present, annotation
\* file loaded
Start(a, images, annotations, src, out) ==
    /\ args = a
    /\ coco_data = [images |-> images, annotations |-> annotations]
    /\ src_dir = src
    /\ out_dir = out
    /\ id_to_filename = [n \in {} |-> <<>>]
    /\ image_instance_count = <<>>
    /\ printed_dist = <<>>
    /\ selected_images = <<>>
    /\ printed_filtered = <<>>
    /\ copied = 0
    /\ warnings = <<>>
    /\ errors = <<>>
    /\ written = <<>>
    /\ sample_files = <<>>
    /\ pc = "images"
    /\ i = 1

\* any annotation stream of up to MaxAnns records
InitAnnotations ==
    \E anns \in SeqsUpTo(AnnRecords, MaxAnns), min_area \in {0, 1024} :
        Start([DefaultArgs EXCEPT !.min_area = min_area],
              <<Img(1, NameA), Img(2, NameB)>>, anns, AllPictures, EmptyDir)

\* any count range, also an empty one and one that reaches below 1
InitRange ==
    \E lo \in -1..MaxAnns, hi \in -1..MaxAnns,
       anns \in {<<>>, <<Ann(1)>>, <<Ann(1), Ann(2)>>, <<Ann(2), Ann(1), Ann(2)>>,
                 <<Ann(1), [image_id |-> 2]>>} :
        Start([DefaultArgs EXCEPT !.min_count = lo, !.max_count = hi],
              <<Img(1, NameA), Img(2, NameB)>>, anns, AllPictures, EmptyDir)

\* any image metadata stream of up to two records
InitImages ==
    \E images \in SeqsUpTo({Img(id, n) : id \in ImageIds, n \in SrcNames}, 2),
       anns \in {<<Ann(1), Ann(2)>>, <<Ann(2), Ann(1), Ann(2)>>} :
        Start(DefaultArgs, images, anns, AllPictures, EmptyDir)

\* any state of the source files and of the destination, any sign of image_size
InitFiles ==
    \E a \in {Missing, Corrupt, Picture(3, 2)}, b \in {Missing, Corrupt, Picture(2, 3)},
       images \in {<<Img(1, NameA), Img(2, NameB)>>, <<Img(1, NameA)>>},
       size \in {256, 0},
       out \in {EmptyDir} \cup {[n \in {DstFilename(1, NameA)} |-> Prior(wr)] : wr \in BOOLEAN} :
        Start([DefaultArgs EXCEPT !.image_size = size], images, <<Ann(1), Ann(2)>>,
              [AllPictures EXCEPT ![NameA] = a, ![NameB] = b], out)

\* any number of files left in the output directory by earlier runs
InitPrior ==
    \E n \in 0..MaxPrior, a \in {Missing, Corrupt, Picture(3, 2)} :
        Start(DefaultArgs, <<Img(1, NameA), Img(2, NameB)>>, <<Ann(1), Ann(2), Ann(2)>>,
              [AllPictures EXCEPT ![NameA] = a],
              [name \in {StaleName(k) : k \in 1..n} |-> Prior(TRUE)])

\* any image extent up to MaxSide and the extents of the documented examples,
\* any small target size
InitSizes ==
    \E wh \in ((1..MaxSide) \X (1..MaxSide)) \cup {<<100, 200>>, <<640, 480>>, <<480, 640>>},
       size \in {1, 2, 256} :
        Start([DefaultArgs EXCEPT !.image_size = size], <<Img(1, NameA)>>, <<Ann(1)>>,
              [AllPictures EXCEPT ![NameA] = Picture(wh[1], wh[2])], EmptyDir)

Init ==
    \/ InitAnnotations
    \/ InitRange
    \/ InitImages
    \/ InitFiles
    \/ InitPrior
    \/ InitSizes

-----------------------------------------------------------------------------
(* main()                                                                  *)

\* lines 52-53
IndexImage ==
    /\ pc = "images"
    /\ i <= Len(coco_data.images)
    /\ LET img_info == coco_data.images[i]
       IN  id_to_filename' =
               [k \in DOMAIN id_to_filename \cup {img_info.id} |->
                   IF k = img_info.id THEN img_info.file_name ELSE id_to_filename[k]]
    /\ i' = i + 1
    /\ UNCHANGED <<args, coco_data, src_dir, out_dir, image_instance_count, printed_dist,
                   selected_images, printed_filtered, copied, warnings, errors, written,
                   sample_files, pc>>

\* line 56
StartCount ==
    /\ pc = "images"
    /\ i > Len(coco_data.images)
    /\ image_instance_count' = <<>>
    /\ pc' = "annotations"
    /\ i' = 1
    /\ UNCHANGED <<args, coco_data, src_dir, out_dir, id_to_filename, printed_dist,
                   selected_images, printed_filtered, copied, warnings, errors, written,
                   sample_files>>

\* lines 57-62
CountStep ==
    /\ pc = "annotations"
    /\ i <= Len(coco_data.annotations)
    /\ image_instance_count' =
           CountAnnotation(image_instance_count, coco_data.annotations[i], args.min_area)
    /\ i' = i + 1
    /\ UNCHANGED <<args, coco_data, src_dir, out_dir, id_to_filename, printed_dist,
                   selected_images, printed_filtered, copied, warnings, errors, written,
                   sample_files, pc>>

\* lines 64-68
ReportDistribution ==
    /\ pc = "annotations"
    /\ i > Len(coco_data.annotations)
    /\ printed_dist' = PrintDistribution(CountValues(image_instance_count))
    /\ pc' = "filter"
    /\ UNCHANGED <<args, coco_data, src_dir, out_dir, id_to_filename, image_instance_count,
                   selected_images, printed_filtered, copied, warnings, errors, written,
                   sample_files, i>>

\* lines 70-76
FilterRange ==
    /\ pc = "filter"
    /\ selected_images' = SelectRange(image_instance_count, args.min_count, args.max_count)
    /\ pc' = "filtered"
    /\ UNCHANGED <<args, coco_data, src_dir, out_dir, id_to_filename, image_instance_count,
                   printed_dist, printed_filtered, copied, warnings, errors, written,
                   sample_files, i>>

\* lines 78-86
ReportFiltered ==
    /\ pc = "filtered"
    /\ printed_filtered' = PrintDistribution(CountValues(selected_images))
    /\ copied' = 0
    /\ pc' = "copy"
    /\ i' = 1
    /\ UNCHANGED <<args, coco_data, src_dir, out_dir, id_to_filename, image_instance_count,
                   printed_dist, selected_images, warnings, errors, written, sample_files>>

\* lines 87-90: no file name is known for the identifier
SkipNoFilename ==
    /\ pc = "copy"
    /\ i <= Len(selected_images)
    /\ selected_images[i][1] \notin DOMAIN id_to_filename
    /\ i' = i + 1
    /\ UNCHANGED <<args, coco_data, src_dir, out_dir, id_to_filename, image_instance_count,
                   printed_dist, selected_images, printed_filtered, copied, warnings,
                   errors, written, sample_files, pc>>

\* lines 87-94: the source file does not exist
SkipMissing ==
    /\ pc = "copy"
    /\ i <= Len(selected_images)
    /\ selected_images[i][1] \in DOMAIN id_to_filename
    /\ LET src_filename == id_to_filename[selected_images[i][1]]
       IN  /\ ~src_dir[src_filename].exists
           /\ warnings' = Append(warnings, src_filename)
    /\ i' = i + 1
    /\ UNCHANGED <<args, coco_data, src_dir, out_dir, id_to_filename, image_instance_count,
                   printed_dist, selected_images, printed_filtered, copied, errors,
                   written, sample_files, pc>>

\* lines 87-112: the image is loaded, cropped, resized and saved
CopyImage ==
    /\ pc = "copy"
    /\ i <= Len(selected_images)
    /\ selected_images[i][1] \in DOMAIN id_to_filename
    /\ LET img_id == selected_images[i][1]
           count == selected_images[i][2]
           src_filename == id_to_filename[img_id]
           dst_filename == DstFilename(count, src_filename)
           img == Canonicalize(src_dir[src_filename], args.image_size)
       IN  /\ src_dir[src_filename].exists
           /\ img.ok
           /\ CanSave(out_dir, dst_filename)
           /\ out_dir' = Save(out_dir, dst_filename, src_filename, img)
           /\ written' = Append(written, <<img_id, dst_filename>>)
    /\ copied' = copied + 1
    /\ i' = i + 1
    /\ UNCHANGED <<args, coco_data, src_dir, id_to_filename, image_instance_count,
                   printed_dist, selected_images, printed_filtered, warnings, errors,
                   sample_files, pc>>

\* lines 87-111, 113-114: loading, resizing or saving raised
CopyFailed ==
    /\ pc = "copy"
    /\ i <= Len(selected_images)
    /\ selected_images[i][1] \in DOMAIN id_to_filename
    /\ LET img_id == selected_images[i][1]
           count == selected_images[i][2]
           src_filename == id_to_filename[img_id]
           dst_filename == DstFilename(count, src_filename)
           img == Canonicalize(src_dir[src_filename], args.image_size)
           handled == HandleError(errors, src_filename)
       IN  /\ src_dir[src_filename].exists
           /\ ~img.ok \/ ~CanSave(out_dir, dst_filename)
           /\ errors' = handled.errors
           /\ pc' = handled.pc
    /\ i' = i + 1
    /\ UNCHANGED <<args, coco_data, src_dir, out_dir, id_to_filename, image_instance_count,
                   printed_dist, selected_images, printed_filtered, copied, warnings,
                   written, sample_files>>

\* lines 116-121
Summary ==
    /\ pc = "copy"
    /\ i > Len(selected_images)
    /\ sample_files' = SampleFiles(out_dir)
    /\ pc' = "done"
    /\ UNCHANGED <<args, coco_data, src_dir, out_dir, id_to_filename, image_instance_count,
                   printed_dist, selected_images, printed_filtered, copied, warnings,
                   errors, written, i>>

Next ==
    \/ IndexImage
    \/ StartCount
    \/ CountStep
    \/ ReportDistribution
    \/ FilterRange
    \/ ReportFiltered
    \/ SkipNoFilename
    \/ SkipMissing
    \/ CopyImage
    \/ CopyFailed
    \/ Summary

Spec == Init /\ [][Next]_vars

\* main() is one sequential thread: it is never suspended for ever while a
\* step is possible.  The runs whose items fail are those of the file states.
InitLive ==
    \/ InitRange
    \/ InitImages
    \/ InitFiles
    \/ InitPrior

LiveSpec == InitLive /\ [][Next]_vars /\ WF_vars(Next)

-----------------------------------------------------------------------------
(* Vocabulary of the properties                                            *)

Min(a, b) == IF a < b THEN a ELSE b
Abs(a) == IF a < 0 THEN 0 - a ELSE a
Range(q) == {q[k] : k \in 1..Len(q)}

IndexBuilt == pc \notin {"images", "annotations"}
Filtered == pc \in {"filtered", "copy", "done"}

\* a qualifying annotation: not crowd-flagged (a missing flag is false) and of
\* area (0 when missing) at least min_area
IsQualifying(ann) ==
    /\ ("iscrowd" \in DOMAIN ann => ann.iscrowd = 0)
    /\ (IF "area" \in DOMAIN ann THEN ann.area ELSE 0) >= args.min_area

QualifyingOf(id) ==
    {k \in 1..Len(coco_data.annotations) :
        coco_data.annotations[k].image_id = id /\ IsQualifying(coco_data.annotations[k])}

InRange(count) == args.min_count <= count /\ count <= args.max_count

\* C1: once the index is built, every identifier of the InstanceCount mapping
\* maps to the number of its qualifying annotation records; with a positive
\* min_area none of the records counted lacks an area.
C1_CountIsQualifying ==
    IndexBuilt =>
        \A id \in Keys(image_instance_count) :
            /\ Lookup(image_instance_count, id) = Cardinality(QualifyingOf(id))
            /\ args.min_area > 0 =>
                   Lookup(image_instance_count, id) <=
                       Cardinality({k \in 1..Len(coco_data.annotations) :
                           /\ coco_data.annotations[k].image_id = id
                           /\ "area" \in DOMAIN coco_data.annotations[k]})

C1_Witness ==
    /\ pc = "done"
    /\ args.min_area > 0
    /\ \E id \in Keys(image_instance_count) :
          /\ Lookup(image_instance_count, id) = 2
          /\ \E k \in 1..Len(coco_data.annotations) :
                /\ coco_data.annotations[k].image_id = id
                /\ "area" \notin DOMAIN coco_data.annotations[k]
                /\ "iscrowd" \notin DOMAIN coco_data.annotations[k]

\* C2: at every point of the run every entry of the InstanceCount mapping has
\* a count of at least 1, and an image without a qualifying annotation has no
\* entry, is not selected and is not written, whatever min_count is.
C2_NoZeroEntry ==
    /\ \A k \in 1..Len(image_instance_count) : image_instance_count[k][2] >= 1
    /\ \A id \in ImageIds :
          QualifyingOf(id) = {} =>
              /\ id \notin Keys(image_instance_count)
              /\ id \notin Keys(selected_images)
              /\ \A k \in 1..Len(written) : written[k][1] # id

C2_Witness ==
    /\ pc = "done"
    /\ args.min_count <= 0
    /\ args.max_count >= 1
    /\ written # <<>>
    /\ \E k \in 1..Len(coco_data.annotations) :
          QualifyingOf(coco_data.annotations[k].image_id) = {}

\* C3: the selection holds exactly the entries of the InstanceCount mapping
\* whose count lies in [min_count, max_count], values unchanged and each once;
\* with min_count = max_count it holds exactly the entries of that count, and
\* with min_count > max_count it is empty and the run still has a next step
\* until it is done.
C3_SelectionExact ==
    Filtered =>
        /\ Range(selected_images) = {e \in Range(image_instance_count) : InRange(e[2])}
        /\ Cardinality(Keys(selected_images)) = Len(selected_images)
        /\ args.min_count = args.max_count =>
               Keys(selected_images) =
                   {id \in Keys(image_instance_count) :
                       Lookup(image_instance_count, id) = args.min_count}
        /\ args.min_count > args.max_count =>
               /\ selected_images = <<>>
               /\ pc # "done" => ENABLED Next

C3_Witness ==
    /\ pc = "done"
    /\ args.min_count = args.max_count
    /\ Len(selected_images) = 1
    /\ Len(image_instance_count) = 2
    /\ copied = 1

\* the decimal number a string of digits denotes
RECURSIVE ParseDec(_)
ParseDec(digits) ==
    IF digits = <<>> THEN 0
    ELSE 10 * ParseDec(SubSeq(digits, 1, Len(digits) - 1)) + (digits[Len(digits)] - Digit0)

\* the part of a file name before its first underscore, and the part after it
FirstUnderscore(name) ==
    CHOOSE k \in 1..Len(name) :
        /\ name[k] = Underscore[1]
        /\ \A m \in 1..(k - 1) : name[m] # Underscore[1]
CountPrefix(name) == SubSeq(name, 1, FirstUnderscore(name) - 1)
AfterPrefix(name) == SubSeq(name, FirstUnderscore(name) + 1, Len(name))

\* the files of the output directory that this run wrote
WrittenNames == {written[k][2] : k \in 1..Len(written)}

\* C4: every file the run writes is named {count}_{base_name}.jpg, base_name the
\* source file name of its image without the extension and count the
\* InstanceCount value of that image, which lies in [min_count, max_count];
\* every file of the output directory that holds an image of this run is one
\* of them.
C4_FilenameEncodesCount ==
    /\ \A k \in 1..Len(written) :
          LET img_id == written[k][1]
              name == written[k][2]
              count == Lookup(image_instance_count, img_id)
          IN  /\ img_id \in Keys(selected_images)
              /\ Underscore[1] \in Range(name)
              /\ ParseDec(CountPrefix(name)) = count
              /\ AfterPrefix(name) = SplitExtBase(id_to_filename[img_id]) \o JpgExt
              /\ name = Str(count) \o Underscore \o AfterPrefix(name)
              /\ InRange(count)
    /\ \A n \in DOMAIN out_dir : out_dir[n].src # <<>> <=> n \in WrittenNames

C4_Witness ==
    /\ pc = "done"
    /\ \E k \in 1..Len(written) :
          /\ written[k][2] = Str(2) \o Underscore \o <<98>> \o JpgExt
          /\ id_to_filename[written[k][1]] = NameB
          /\ Lookup(image_instance_count, written[k][1]) = 2

\* the selected identifiers, by what the environment holds for them
SelectedIds == Keys(selected_images)
HasName(id) == id \in DOMAIN id_to_filename
NoFilename == {id \in SelectedIds : ~HasName(id)}
NoSource == {id \in SelectedIds : HasName(id) /\ ~src_dir[id_to_filename[id]].exists}
\* loading raises on an undecodable file, resizing on a size that is not
\* positive, writing on a destination that was there and is not writable
Raises(id) ==
    LET name == id_to_filename[id]
        dst == Str(Lookup(selected_images, id)) \o Underscore \o SplitExtBase(name) \o JpgExt
    IN  \/ ~src_dir[name].decodable
        \/ args.image_size <= 0
        \/ (dst \in DOMAIN out_dir /\ ~out_dir[dst].writable)
Failing == {id \in SelectedIds : HasName(id) /\ src_dir[id_to_filename[id]].exists /\ Raises(id)}
Sound == SelectedIds \ (NoFilename \cup NoSource \cup Failing)
WrittenIds == {written[k][1] : k \in 1..Len(written)}

C6_Original ==
    (/\ pc = "done"
     /\ \A j, k \in DOMAIN id_to_filename : j # k => id_to_filename[j] # id_to_filename[k])
    => /\ \A j, k \in 1..Len(written) : j # k => written[j][2] # written[k][2]
       /\ Cardinality(WrittenNames) = copied

\* C6, amended: two materialized identifiers write the same file exactly when
\* they have the same count and the same base name, and then the later one
\* replaces the earlier one's file; so the run writes one file per distinct
\* (count, base name) pair, at most copied files, and exactly copied files
\* when those pairs are pairwise distinct.
C6_OneFilePerCountAndBase ==
    LET pair(k) == <<Lookup(selected_images, written[k][1]),
                     SplitExtBase(id_to_filename[written[k][1]])>>
        pairs == {pair(k) : k \in 1..Len(written)}
    IN  /\ \A j, k \in 1..Len(written) :
              written[j][2] = written[k][2] <=> pair(j) = pair(k)
        /\ Cardinality(WrittenNames) = Cardinality(pairs)
        /\ copied = Len(written)
        /\ Cardinality(WrittenNames) <= copied
        /\ \A n \in WrittenNames :
              LET last == CHOOSE k \in 1..Len(written) :
                              /\ written[k][2] = n
                              /\ \A m \in 1..Len(written) : written[m][2] = n => m <= k
              IN  out_dir[n].src = id_to_filename[written[last][1]]

C6_Witness ==
    /\ pc = "done"
    /\ copied = 2
    /\ Cardinality(WrittenNames) = 1
    /\ id_to_filename[written[1][1]] # id_to_filename[written[2][1]]

\* C7: the run always completes: the summary is eventually printed, and by
\* then every selected identifier has been handled exactly once, as a skip, a
\* failure or a copy, whatever items are missing or fail.
C7_RunCompletes ==
    /\ <>(pc = "done")
    /\ [](pc = "done" =>
            /\ i = Len(selected_images) + 1
            /\ Cardinality(NoFilename) + Len(warnings) + Len(errors) + copied
                   = Len(selected_images))
    /\ [][pc = "copy" /\ i <= Len(selected_images) => pc' = "copy" /\ i' = i + 1]_vars

C7_Witness ==
    /\ pc = "done"
    /\ errors # <<>>
    /\ warnings # <<>>
    /\ Len(selected_images) = 2

\* C8: every image the run writes was cropped to a box whose left and top
\* offsets are floor((w - min_side)/2) and floor((h - min_side)/2), which is a
\* min_side x min_side square inside the w x h source image with opposite
\* margins differing by at most 1, and was resized to image_size x image_size;
\* a 100 x 200 image is cropped at vertical offset 50 and horizontal offset 0.
C8_CenterCrop ==
    \A n \in DOMAIN out_dir :
        out_dir[n].src # <<>> =>
            LET w == src_dir[out_dir[n].src].w
                h == src_dir[out_dir[n].src].h
                min_side == Min(w, h)
                left == out_dir[n].box[1]
                top == out_dir[n].box[2]
                right == out_dir[n].box[3]
                bottom == out_dir[n].box[4]
            IN  /\ 2 * left <= w - min_side /\ w - min_side < 2 * left + 2
                /\ 2 * top <= h - min_side /\ h - min_side < 2 * top + 2
                /\ right - left = min_side /\ bottom - top = min_side
                /\ 0 <= left /\ right <= w /\ 0 <= top /\ bottom <= h
                /\ Abs(left - (w - right)) <= 1 /\ Abs(top - (h - bottom)) <= 1
                /\ out_dir[n].size = <<args.image_size, args.image_size>>
                /\ (w = 100 /\ h = 200) => (left = 0 /\ top = 50)

C8_Witness ==
    \E n \in DOMAIN out_dir :
        /\ out_dir[n].src # <<>>
        /\ src_dir[out_dir[n].src].w = src_dir[out_dir[n].src].h + 3
        /\ out_dir[n].box[1] = 1
        /\ out_dir[n].size = <<2, 2>>

\* a histogram of a mapping: count values strictly ascending, each with the
\* number of identifiers of that count, every count value of the mapping listed
IsHistogramOf(hist, d) ==
    /\ \A k \in 1..(Len(hist) - 1) : hist[k][1] < hist[k + 1][1]
    /\ \A k \in 1..Len(hist) :
          /\ hist[k][2] = Cardinality({id \in Keys(d) : Lookup(d, id) = hist[k][1]})
          /\ hist[k][2] >= 1
    /\ {hist[k][1] : k \in 1..Len(hist)} = Values(d)

RECURSIVE SumOfImages(_)
SumOfImages(hist) == IF hist = <<>> THEN 0 ELSE Head(hist)[2] + SumOfImages(Tail(hist))

\* C9: the distribution is reported twice, over the InstanceCount mapping and
\* over the selection; each report is the histogram of its mapping in
\* strictly ascending order of count value, its image counts sum to the size
\* of the mapping, reporting changes neither mapping, and the second report
\* is the first restricted to the count values in [min_count, max_count].
C9_Histograms ==
    /\ [](IndexBuilt =>
            /\ IsHistogramOf(printed_dist, image_instance_count)
            /\ SumOfImages(printed_dist) = Len(image_instance_count))
    /\ [](pc \in {"copy", "done"} =>
            /\ IsHistogramOf(printed_filtered, selected_images)
            /\ SumOfImages(printed_filtered) = Len(selected_images)
            /\ printed_filtered = SelectSeq(printed_dist, LAMBDA e : InRange(e[1])))
    /\ [][printed_dist' # printed_dist \/ printed_filtered' # printed_filtered =>
            /\ image_instance_count' = image_instance_count
            /\ selected_images' = selected_images]_vars

C9_Witness ==
    /\ pc = "done"
    /\ Len(printed_dist) = 2
    /\ Len(printed_filtered) = 1
    /\ printed_filtered[1] = printed_dist[2]

\* C10 as stated: the sample lists at most 10 file names in ascending order,
\* each of them a file written by this run.
C10_Original ==
    pc = "done" =>
        /\ Len(sample_files) <= SampleLimit
        /\ \A k \in 1..(Len(sample_files) - 1) : LexLess(sample_files[k], sample_files[k + 1])
        /\ \A k \in 1..Len(sample_files) : sample_files[k] \in WrittenNames

\* C10, amended: the sample lists the first 10 entries (all of them when
\* there are fewer) of the output directory as it is at the end of the run,
\* in ascending lexicographic order; an entry may be a file written by this
\* run or a file that was in the directory before the run.
C10_SampleOfDirectory ==
    pc = "done" =>
        /\ Len(sample_files) = Min(SampleLimit, Cardinality(DOMAIN out_dir))
        /\ \A k \in 1..(Len(sample_files) - 1) : LexLess(sample_files[k], sample_files[k + 1])
        /\ Range(sample_files) \subseteq DOMAIN out_dir
        /\ \A n \in DOMAIN out_dir \ Range(sample_files) :
              \A k \in 1..Len(sample_files) : LexLess(sample_files[k], n)

C10_Witness ==
    /\ pc = "done"
    /\ Len(sample_files) = SampleLimit
    /\ Cardinality(DOMAIN out_dir) > SampleLimit
    /\ \E k \in 1..Len(sample_files) : sample_files[k] \in WrittenNames
    /\ \E k \in 1..Len(sample_files) : sample_files[k] \notin WrittenNames

====
